---- MODULE Spec2Model ----
(***************************************************************************)
(* ContentCreationBot.py: a PDF is narrated (gTTS), the narration is       *)
(* transcribed to subtitles (whisper, write_srt), cut or tiled to the      *)
(* video's duration and muxed onto the video by ffmpeg.                    *)
(*                                                                         *)
(* The pipeline (main / process_pdf_and_video) is modelled one statement   *)
(* group at a time over a small filesystem.  The collaborators (fitz,      *)
(* gTTS, pydub, whisper, ffprobe, soundfile, ffmpeg, the operating system) *)
(* are the environment: every outcome they can hand back to the code is a  *)
(* nondeterministic choice of the action that calls them.                  *)
(***************************************************************************)
EXTENDS Integers, Sequences, FiniteSets, TLC

VARIABLES
    fs,        \* the files the program names: path -> content, or NoFile
    dataDir,   \* whether the directory 'data' exists
    pc,        \* per job: the statement of main/process_pdf_and_video it is at
    args,      \* per job: the arguments main was called with
    ret,       \* per job: the pair main returned
    log,       \* per job: the stages executed so far, each with its outcome
    encoder,   \* per job: how the ffmpeg invocation of the job ended
    warn,      \* per job: the paths cleanup printed 'Failed to delete' for
    clash,     \* a job touched a file that another running job had written
    narration, \* per job, while ffmpeg runs: the samples sf.read returned
    audio,     \* reconciliation on its own: the decoded samples
    rate,      \* reconciliation on its own: the sample rate
    target,    \* reconciliation on its own: video duration, in 1/DurDen s
    adjusted,  \* reconciliation on its own: the result
    segments,  \* subtitle writing on its own: the recognition segments
    srt,       \* subtitle writing on its own: the cue blocks written
    extracted, \* text cleaning on its own: the text pdf_extract returned
    cleaned    \* text cleaning on its own: the results of clean_text so far

vars == <<fs, dataDir, pc, args, ret, log, encoder, warn, clash, narration,
          audio, rate, target, adjusted, segments, srt, extracted, cleaned>>

pipeVars == <<fs, dataDir, pc, args, ret, log, encoder, warn, clash, narration>>
pureVars == <<audio, rate, target, adjusted, segments, srt, extracted, cleaned>>

(***************************************************************************)
(* Text.  A Python str is a sequence of one-character strings.             *)
(***************************************************************************)
Upper == <<"A", "B", "C", "D", "E", "F", "G", "H", "I", "J", "K", "L", "M",
           "N", "O", "P", "Q", "R", "S", "T", "U", "V", "W", "X", "Y", "Z">>
Lower == <<"a", "b", "c", "d", "e", "f", "g", "h", "i", "j", "k", "l", "m",
           "n", "o", "p", "q", "r", "s", "t", "u", "v", "w", "x", "y", "z">>

\* str.lower() on one character
LowerChar(c) ==
    IF \E i \in 1..Len(Upper) : Upper[i] = c
    THEN Lower[CHOOSE i \in 1..Len(Upper) : Upper[i] = c]
    ELSE c

\* str.lower()
ToLower(s) == [i \in 1..Len(s) |-> LowerChar(s[i])]

\* str.endswith(suffix)
EndsWith(s, suffix) ==
    /\ Len(s) >= Len(suffix)
    /\ SubSeq(s, Len(s) - Len(suffix) + 1, Len(s)) = suffix

Whitespace == {" ", "\t", "\n"}

RECURSIVE LStrip(_)
LStrip(s) ==
    IF s # <<>> /\ Head(s) \in Whitespace THEN LStrip(Tail(s)) ELSE s

RECURSIVE RStrip(_)
RStrip(s) ==
    IF s # <<>> /\ s[Len(s)] \in Whitespace
    THEN RStrip(SubSeq(s, 1, Len(s) - 1))
    ELSE s

\* str.strip()
Strip(s) == RStrip(LStrip(s))

\* str.replace(old, new): leftmost occurrences, left to right, not overlapping
RECURSIVE Replace(_, _, _)
Replace(s, old, new) ==
    IF Len(s) < Len(old) THEN s
    ELSE IF SubSeq(s, 1, Len(old)) = old
         THEN new \o Replace(SubSeq(s, Len(old) + 1, Len(s)), old, new)
         ELSE <<Head(s)>> \o Replace(Tail(s), old, new)

(***************************************************************************)
(* Numbers.  Times are integers in milliseconds; int() truncates toward    *)
(* zero, divmod by a positive number is \div and %.                        *)
(***************************************************************************)
Abs(n) == IF n < 0 THEN -n ELSE n
Min(a, b) == IF a <= b THEN a ELSE b
Max(a, b) == IF a >= b THEN a ELSE b

\* int(n / d) for d > 0
TruncDiv(n, d) == IF n >= 0 THEN n \div d ELSE -((-n) \div d)

\* ceil(n / d) for d > 0
CeilDiv(n, d) == -((-n) \div d)

DigitChars == <<"0", "1", "2", "3", "4", "5", "6", "7", "8", "9">>

RECURSIVE Digits(_)
Digits(n) ==
    IF n < 10 THEN <<DigitChars[n + 1]>>
    ELSE Digits(n \div 10) \o <<DigitChars[(n % 10) + 1]>>

\* f"{n:0w}": sign, then zeros up to width w, then the digits
ZeroPad(n, w) ==
    LET sign == IF n < 0 THEN <<"-">> ELSE <<>>
        d    == Digits(Abs(n))
        fill == Max(w - Len(sign) - Len(d), 0)
    IN  sign \o [i \in 1..fill |-> "0"] \o d

(***************************************************************************)
(* clean_text(text): four re.sub calls, one after the other.  A pattern is *)
(* tried at each position from the left; where it matches, the match is    *)
(* replaced and the scan goes on behind it.  In each pattern a repetition  *)
(* is followed by something its class excludes, so the longest run is the  *)
(* only candidate and no backtracking changes the outcome.                 *)
(***************************************************************************)
UpperSet == {Upper[i] : i \in 1..Len(Upper)}
LowerSet == {Lower[i] : i \in 1..Len(Lower)}
DigitSet == {DigitChars[i] : i \in 1..Len(DigitChars)}
WordSet == UpperSet \cup LowerSet \cup DigitSet \cup {"_"}

\* the character at position i, "" outside the string
At(s, i) == IF i \in 1..Len(s) THEN s[i] ELSE ""

\* \b between positions i - 1 and i
Boundary(s, i) == (At(s, i - 1) \in WordSet) # (At(s, i) \in WordSet)

\* the position behind the longest run of class characters from i
RECURSIVE Run(_, _, _)
Run(s, i, class) == IF At(s, i) \in class THEN Run(s, i + 1, class) ELSE i

\* r'\b[A-Z]+\s[A-Z]\s[A-Z]+(\s-\s[A-Z]\s-\s\d+)\b' at i: the position
\* behind the match, 0 if there is none
BylineEnd(s, i) ==
    LET u == Run(s, i, UpperSet)
        v == Run(s, u + 3, UpperSet)
        d == Run(s, v + 7, DigitSet)
    IN  IF /\ Boundary(s, i)
           /\ u > i
           /\ At(s, u) \in Whitespace
           /\ At(s, u + 1) \in UpperSet
           /\ At(s, u + 2) \in Whitespace
           /\ v > u + 3
           /\ At(s, v) \in Whitespace
           /\ At(s, v + 1) = "-"
           /\ At(s, v + 2) \in Whitespace
           /\ At(s, v + 3) \in UpperSet
           /\ At(s, v + 4) \in Whitespace
           /\ At(s, v + 5) = "-"
           /\ At(s, v + 6) \in Whitespace
           /\ d > v + 7
           /\ Boundary(s, d)
        THEN d ELSE 0

\* r'\b\d+\.\s[A-Z]+\b' at i
HeadingEnd(s, i) ==
    LET d == Run(s, i, DigitSet)
        u == Run(s, d + 2, UpperSet)
    IN  IF /\ Boundary(s, i)
           /\ d > i
           /\ At(s, d) = "."
           /\ At(s, d + 1) \in Whitespace
           /\ u > d + 2
           /\ Boundary(s, u)
        THEN u ELSE 0

\* r'\s+' at i
SpaceEnd(s, i) == LET e == Run(s, i, Whitespace) IN IF e > i THEN e ELSE 0

MatchEnd(pattern, s, i) ==
    CASE pattern = "byline"  -> BylineEnd(s, i)
      [] pattern = "heading" -> HeadingEnd(s, i)
      [] pattern = "space"   -> SpaceEnd(s, i)

\* re.sub(pattern, repl, s), scanning from position i
RECURSIVE SubFrom(_, _, _, _)
SubFrom(pattern, repl, s, i) ==
    IF i > Len(s) THEN <<>>
    ELSE IF MatchEnd(pattern, s, i) > i
         THEN repl \o SubFrom(pattern, repl, s, MatchEnd(pattern, s, i))
         ELSE <<s[i]>> \o SubFrom(pattern, repl, s, i + 1)

Sub(pattern, repl, s) == SubFrom(pattern, repl, s, 1)

clean_text(t) ==
    LET unescaped == Replace(t, <<"\\", "'">>, <<"'">>)
        nobyline  == Sub("byline", <<>>, unescaped)
        noheading == Sub("heading", <<>>, nobyline)
    IN  Sub("space", <<" ">>, noheading)

(***************************************************************************)
(* format_timestamp(seconds), seconds given in milliseconds.               *)
(*   hours, remainder = divmod(int(seconds), 3600)                         *)
(*   minutes, seconds = divmod(remainder, 60)      <- rebinds `seconds`    *)
(*   milliseconds = int((seconds - int(seconds)) * 1000)                   *)
(***************************************************************************)
format_timestamp(ms) ==
    LET whole     == TruncDiv(ms, 1000)
        hours     == whole \div 3600
        remainder == whole % 3600
        minutes   == remainder \div 60
        seconds   == (remainder % 60) * 1000     \* the rebound name, in ms
        millis    == seconds - TruncDiv(seconds, 1000) * 1000
    IN  ZeroPad(hours, 2) \o <<":">> \o ZeroPad(minutes, 2) \o <<":">>
        \o ZeroPad(TruncDiv(seconds, 1000), 2) \o <<",">> \o ZeroPad(millis, 3)

(***************************************************************************)
(* write_srt(transcript, file): one cue block per segment, numbered from 1.*)
(* A block "{i}\n{start} --> {end}\n{text}\n\n" is kept as its fields.     *)
(***************************************************************************)
Arrow == <<"-", "-", ">">>
ShortArrow == <<"-", ">">>

CueText(text) == Strip(Replace(text, Arrow, ShortArrow))

\* write_srt with enumerate(transcript) counting from 0
WriteSrt_from_zero(transcript) ==
    [i \in 1..Len(transcript) |->
        [index |-> i - 1,
         start |-> format_timestamp(transcript[i].start),
         end   |-> format_timestamp(transcript[i].end),
         text  |-> CueText(transcript[i].text)]]

WriteSrt(transcript) ==
    [i \in 1..Len(transcript) |->
        [index |-> i,
         start |-> format_timestamp(transcript[i].start),
         end   |-> format_timestamp(transcript[i].end),
         text  |-> CueText(transcript[i].text)]]

(***************************************************************************)
(* The audio adjustment of overlay_audio_and_subtitles_on_video.           *)
(* video_duration is t / DurDen seconds; a is the sample sequence.         *)
(***************************************************************************)
DurDen == 4

\* padding with silence up to k times the length, in place of np.tile
Tile_silence(a, k) ==
    IF k <= 0 THEN <<>> ELSE a \o [i \in 1..((k - 1) * Len(a)) |-> 0]

\* np.tile(audio, repeat_times) of a one-dimensional array
RECURSIVE Tile(_, _)
Tile(a, k) == IF k <= 0 THEN <<>> ELSE a \o Tile(a, k - 1)

\* a[:m] for m >= 0
Take(a, m) == SubSeq(a, 1, Min(m, Len(a)))

\* int(video_duration * sample_rate)
CutLength(sr, t) == TruncDiv(t * sr, DurDen)

AdjustAudio(a, sr, t) ==
    LET n == Len(a)
    IN  IF n * DurDen > t * sr
        THEN [ok |-> TRUE, samples |-> Take(a, CutLength(sr, t))]
        ELSE IF n * DurDen < t * sr
        THEN IF n = 0
             THEN [ok |-> FALSE, samples |-> <<>>]     \* ZeroDivisionError
             ELSE [ok |-> TRUE,
                   samples |-> Take(Tile(a, CeilDiv(t * sr, DurDen * n)),
                                    CutLength(sr, t))]
        ELSE [ok |-> TRUE, samples |-> a]

(***************************************************************************)
(* The filesystem.  A path is <<directory, stem, extension>>; the program names only  *)
(* the files below.  A file's content records the job that wrote it        *)
(* (0: it was there before any job), whether the write was completed, and, *)
(* for the subtitle file and the adjusted audio, what was written.         *)
(***************************************************************************)
Jobs == {1, 2}
OutNames == {"a", "b"}

\* no file at the path
NoFile == [owner |-> -1, whole |-> FALSE, data |-> <<>>]
\* Python's None, as the path main returns with an error
None == <<"None", "", "">>
\* the empty error text main returns with a path
NoError == [exc |-> "", detail |-> ""]

NarrationMp3 == <<"data", "narration", ".mp3">>   \* os.path.join('data', 'narration.mp3')
NarrationWav == <<"data", "narration", ".wav">>   \* splitext(mp3)[0] + '.wav'
NarrationSrt == <<"data", "narration", ".srt">>   \* output_dir, basename + '.srt'
TempAudio    == <<".", "temp_audio", ".wav">>     \* temp_audio_path
DataOut(out) == <<"data", out, ".mp4">>           \* output_file
Dest(out)    == <<".", out, ".mp4">>              \* f'{output_filename}.mp4'

Paths ==
    {NarrationMp3, NarrationWav, NarrationSrt, TempAudio}
        \cup {DataOut(o) : o \in OutNames} \cup {Dest(o) : o \in OutNames}

File(j, whole, data) == [owner |-> j, whole |-> whole, data |-> data]

\* os.listdir('data')
ListData == {p \in Paths : p[1] = "data" /\ fs[p] # NoFile}

Running(j) == pc[j] \notin {"idle", "returned"}

\* job j reads, overwrites or deletes the files ps: is one of them a file
\* that another job, still running, wrote?
Touches(j, ps) ==
    \E p \in ps : /\ fs[p] # NoFile
                  /\ fs[p].owner \in Jobs \ {j}
                  /\ Running(fs[p].owner)

(***************************************************************************)
(* main: the try/except around process_pdf_and_video.  An exception e of   *)
(* any stage becomes the returned pair (None, "An error occurred: ...").   *)
(***************************************************************************)
Stages == <<"Validating", "Extracting", "Synthesizing", "Transcribing",
            "Reconciling", "Muxing", "Finalizing">>

Entry(stage, ok) == [stage |-> stage, ok |-> ok]

\* the stage raised: main's except clause returns (None, error_message)
Raise(j, stage, exc, detail) ==
    /\ pc' = [pc EXCEPT ![j] = "returned"]
    /\ ret' = [ret EXCEPT ![j] = [path |-> None,
                                  error |-> [exc |-> exc, detail |-> detail]]]
    /\ log' = [log EXCEPT ![j] = Append(@, Entry(stage, FALSE))]

\* the stage completed: control reaches the next statement
Goto(j, stage, ok, next) ==
    /\ pc' = [pc EXCEPT ![j] = next]
    /\ log' = [log EXCEPT ![j] = Append(@, Entry(stage, ok))]
    /\ UNCHANGED ret

PdfSuffix == <<".", "p", "d", "f">>
Mp4Suffix == <<".", "m", "p", "4">>

\* the extension checks with the video check left out
ExtensionError_pdf_only(pdf_file, video_file) ==
    IF ~EndsWith(ToLower(pdf_file), PdfSuffix)
    THEN "The provided PDF file does not have a .pdf extension."
    ELSE ""

\* the two extension checks of process_pdf_and_video, in order
ExtensionError(pdf_file, video_file) ==
    IF ~EndsWith(ToLower(pdf_file), PdfSuffix)
    THEN "The provided PDF file does not have a .pdf extension."
    ELSE IF ~EndsWith(ToLower(video_file), Mp4Suffix)
    THEN "The provided video file does not have a .mp4 extension."
    ELSE ""

\* main(pdf_file, video_file, output_filename) up to os.makedirs('data')
Enter(j, pdf_file, video_file, output_filename) ==
    /\ pc[j] = "idle"
    /\ args' = [args EXCEPT ![j] = [pdf |-> pdf_file, video |-> video_file,
                                    out |-> output_filename]]
    /\ IF ExtensionError(pdf_file, video_file) # ""
       THEN /\ Raise(j, "Validating", "ValueError",
                     ExtensionError(pdf_file, video_file))
            /\ UNCHANGED <<fs, dataDir>>
       ELSE /\ dataDir' = TRUE
            /\ Goto(j, "Validating", TRUE, "extracting")
            /\ UNCHANGED fs
    /\ UNCHANGED <<encoder, warn, clash, narration, pureVars>>

\* content = content_extract(pdf_file): fitz opens the document or raises
Extract(j) ==
    /\ pc[j] = "extracting"
    /\ \E opened \in BOOLEAN :
          IF opened
          THEN Goto(j, "Extracting", TRUE, "synthesizing")
          ELSE Raise(j, "Extracting", "FileDataError", "cannot open document")
    /\ UNCHANGED <<fs, dataDir, args, encoder, warn, clash, narration, pureVars>>

\* generate_audio(content, filename=audio_file): gTTS saves the narration
\* or raises
Synthesize(j) ==
    /\ pc[j] = "synthesizing"
    /\ \E saved \in BOOLEAN :
          IF saved
          THEN /\ fs' = [fs EXCEPT ![NarrationMp3] = File(j, TRUE, <<>>)]
               /\ clash' = (clash \/ Touches(j, {NarrationMp3}))
               /\ Goto(j, "Synthesizing", TRUE, "converting")
          ELSE /\ Raise(j, "Synthesizing", "gTTSError", "no audio")
               /\ UNCHANGED <<fs, clash>>
    /\ UNCHANGED <<dataDir, args, encoder, warn, narration, pureVars>>

\* transcribe_audio, first half: os.makedirs(output_dir, exist_ok=True);
\* audio_filename_wav = convert_to_wav(audio_filename)
TranscribeConvert(j) ==
    /\ pc[j] = "converting"
    /\ IF fs[NarrationMp3] = NoFile
       THEN /\ Raise(j, "Transcribing", "FileNotFoundError", "data/narration.mp3")
            /\ UNCHANGED <<fs, clash>>
       ELSE \E decoded \in BOOLEAN :
               /\ clash' = (clash \/ Touches(j, {NarrationMp3})
                                  \/ (decoded /\ Touches(j, {NarrationWav})))
               /\ IF decoded
                  THEN /\ fs' = [fs EXCEPT ![NarrationWav] = File(j, TRUE, <<>>)]
                       /\ pc' = [pc EXCEPT ![j] = "recognizing"]
                       /\ UNCHANGED <<ret, log>>
                  ELSE /\ Raise(j, "Transcribing", "CouldntDecodeError",
                                "data/narration.mp3")
                       /\ UNCHANGED fs
    /\ UNCHANGED <<dataDir, args, encoder, warn, narration, pureVars>>

\* what the pipeline's recognition collaborator may return: no segment, one
\* segment, one segment that ends before it starts
Segment(start, end, text) == [start |-> start, end |-> end, text |-> text]
PipeSegments == {<<>>, <<Segment(0, 1250, <<" ", "h", "i">>)>>,
                 <<Segment(2000, 1000, <<"h", "i">>)>>}

\* transcribe_audio, second half: whisper transcribes the WAV, write_srt
\* writes the subtitle file, os.remove deletes the WAV
TranscribeRecognize(j) ==
    /\ pc[j] = "recognizing"
    /\ IF fs[NarrationWav] = NoFile
       THEN /\ Raise(j, "Transcribing", "RuntimeError", "data/narration.wav")
            /\ UNCHANGED <<fs, clash>>
       ELSE \E recognized \in BOOLEAN :
               /\ clash' = (clash \/ Touches(j, {NarrationWav})
                                  \/ (recognized /\ Touches(j, {NarrationSrt})))
               /\ IF recognized
                  THEN /\ \E result \in PipeSegments :
                             fs' = [fs EXCEPT
                                      ![NarrationSrt] = File(j, TRUE, WriteSrt(result)),
                                      ![NarrationWav] = NoFile]
                       /\ Goto(j, "Transcribing", TRUE, "reconciling")
                  ELSE /\ Raise(j, "Transcribing", "RuntimeError", "whisper")
                       /\ UNCHANGED fs
    /\ UNCHANGED <<dataDir, args, encoder, warn, narration, pureVars>>

\* what ffprobe and soundfile may hand the pipeline
Samples(n) == [i \in 1..n |-> i]
PipeAudio == {Samples(0), Samples(3)}
PipeRates == {2}
PipeTargets == {0, 3, 8}

\* overlay_audio_and_subtitles_on_video up to sf.write(temp_audio_path, ...):
\* ffprobe gives the duration, sf.read the samples, the audio is adjusted
Reconcile(j) ==
    /\ pc[j] = "reconciling"
    /\ \E probed \in BOOLEAN :
          IF ~probed
          THEN /\ Raise(j, "Reconciling", "KeyError", "video")
               /\ UNCHANGED <<fs, clash, narration>>
          ELSE IF fs[NarrationMp3] = NoFile
          THEN /\ Raise(j, "Reconciling", "LibsndfileError", "data/narration.mp3")
               /\ UNCHANGED <<fs, clash, narration>>
          ELSE \E a \in PipeAudio, sr \in PipeRates, t \in PipeTargets :
                  LET r == AdjustAudio(a, sr, t)
                  IN  IF ~r.ok
                      THEN /\ Raise(j, "Reconciling", "ZeroDivisionError",
                                    "float division by zero")
                           /\ clash' = (clash \/ Touches(j, {NarrationMp3}))
                           /\ UNCHANGED <<fs, narration>>
                      ELSE /\ fs' = [fs EXCEPT ![TempAudio] = File(j, TRUE, r.samples)]
                           /\ clash' = (clash \/ Touches(j, {NarrationMp3, TempAudio}))
                           /\ narration' = [narration EXCEPT ![j] = <<a>>]
                           /\ Goto(j, "Reconciling", TRUE, "muxing")
    /\ UNCHANGED <<dataDir, args, encoder, warn, pureVars>>

\* how an ffmpeg invocation can end: it cannot be started (OSError), exits
\* zero with the output written, or exits non-zero with diagnostic output,
\* having left a partial output file or none
Diags == {"diag1", "diag2"}
EncoderRuns ==
    {[status |-> "nostart", partial |-> FALSE, diag |-> ""],
     [status |-> "zero", partial |-> FALSE, diag |-> ""]}
        \cup [status : {"nonzero"}, partial : BOOLEAN, diag : Diags]

\* the rest of overlay_audio_and_subtitles_on_video: check_output(cmd), the
\* except clause that prints CalledProcessError, os.remove(temp_audio_path)
Mux(j) ==
    /\ pc[j] = "muxing"
    /\ \E run \in EncoderRuns :
          LET out == DataOut(args[j].out)
              \* ffmpeg exits zero only if it finds its inputs and, having
              \* no -y, no file at the output path
              usable == /\ fs[TempAudio] # NoFile
                        /\ fs[NarrationSrt] # NoFile
                        /\ fs[out] = NoFile
              written == IF fs[out] # NoFile \/ run.status = "nostart" THEN fs
                         ELSE IF run.status = "zero"
                         THEN [fs EXCEPT ![out] = File(j, TRUE, <<>>)]
                         ELSE IF run.partial
                         THEN [fs EXCEPT ![out] = File(j, FALSE, <<>>)]
                         ELSE fs
          IN  /\ run.status = "zero" => usable
              /\ encoder' = [encoder EXCEPT ![j] = [status |-> run.status,
                                                    diag |-> run.diag]]
              /\ IF run.status = "nostart"
                 THEN /\ Raise(j, "Muxing", "FileNotFoundError", "ffmpeg")
                      /\ UNCHANGED <<fs, clash>>
                 ELSE /\ clash' = (clash \/ Touches(j, {TempAudio, NarrationSrt}))
                      /\ IF written[TempAudio] = NoFile
                         THEN /\ Raise(j, "Muxing", "FileNotFoundError",
                                       "temp_audio.wav")
                              /\ fs' = written
                         ELSE /\ fs' = [written EXCEPT ![TempAudio] = NoFile]
                              /\ Goto(j, "Muxing", run.status = "zero", "finalizing")
    /\ narration' = [narration EXCEPT ![j] = <<>>]
    /\ UNCHANGED <<dataDir, args, warn, pureVars>>

\* shutil.move(output_file, f'{output_filename}.mp4')
Finalize(j) ==
    /\ pc[j] = "finalizing"
    /\ LET src == DataOut(args[j].out)
           dst == Dest(args[j].out)
       IN  IF fs[src] = NoFile
           THEN /\ Raise(j, "Finalizing", "FileNotFoundError", "data/<out>.mp4")
                /\ UNCHANGED <<fs, clash>>
           ELSE /\ fs' = [fs EXCEPT ![dst] = fs[src], ![src] = NoFile]
                /\ clash' = (clash \/ Touches(j, {src, dst}))
                /\ Goto(j, "Finalizing", TRUE, "cleaning")
    /\ UNCHANGED <<dataDir, args, encoder, warn, narration, pureVars>>

\* a cleanup loop without the try/except around the unlink: the first
\* failure reaches main's except clause
Cleanup_unguarded(j) ==
    /\ pc[j] = "cleaning"
    /\ \E failed \in SUBSET ListData :
          /\ fs' = [p \in Paths |->
                       IF p \in ListData \ failed THEN NoFile ELSE fs[p]]
          /\ warn' = [warn EXCEPT ![j] = failed]
          /\ clash' = (clash \/ Touches(j, ListData \ failed))
          /\ ret' = [ret EXCEPT ![j] =
                        IF failed = {}
                        THEN [path |-> Dest(args[j].out), error |-> NoError]
                        ELSE [path |-> None,
                              error |-> [exc |-> "OSError", detail |-> "unlink"]]]
    /\ pc' = [pc EXCEPT ![j] = "returned"]
    /\ UNCHANGED <<dataDir, args, log, encoder, narration, pureVars>>

\* the loop over os.listdir('data'): each entry is unlinked, or the failure
\* to unlink it is printed; then return f'{output_filename}.mp4' and main
\* returns (output_video_path, "")
Cleanup(j) ==
    /\ pc[j] = "cleaning"
    /\ \E failed \in SUBSET ListData :
          /\ fs' = [p \in Paths |->
                       IF p \in ListData \ failed THEN NoFile ELSE fs[p]]
          /\ warn' = [warn EXCEPT ![j] = failed]
          /\ clash' = (clash \/ Touches(j, ListData \ failed))
    /\ pc' = [pc EXCEPT ![j] = "returned"]
    /\ ret' = [ret EXCEPT ![j] = [path |-> Dest(args[j].out), error |-> NoError]]
    /\ UNCHANGED <<dataDir, args, log, encoder, narration, pureVars>>

(***************************************************************************)
(* The pipeline: jobs are calls of main.  In Spec a call is made only when *)
(* no other call is in progress (the calls form a sequence); in SpecConc   *)
(* the calls interleave statement group by statement group.                *)
(***************************************************************************)
PdfArgs == {<<"d", ".", "p", "d", "f">>, <<"d", ".", "P", "D", "F">>,
            <<"d", ".", "t", "x", "t">>, <<"p", "d", "f">>}
VideoArgs == {<<"v", ".", "m", "p", "4">>, <<"v", ".", "M", "p", "4">>,
              <<"v", ".", "a", "v", "i">>, <<"4">>}

NoArgs == [pdf |-> <<>>, video |-> <<>>, out |-> ""]
NoRun == [status |-> "none", diag |-> ""]

PureIdle ==
    /\ audio = <<>> /\ rate = 1 /\ target = 0 /\ adjusted = <<>>
    /\ segments = <<>> /\ srt = <<>>
    /\ extracted = <<>> /\ cleaned = <<>>

PipeIdle ==
    /\ fs = [p \in Paths |-> NoFile]
    /\ dataDir = FALSE
    /\ pc = [j \in Jobs |-> "idle"]
    /\ args = [j \in Jobs |-> NoArgs]
    /\ ret = [j \in Jobs |-> [path |-> None, error |-> NoError]]
    /\ log = [j \in Jobs |-> <<>>]
    /\ encoder = [j \in Jobs |-> NoRun]
    /\ warn = [j \in Jobs |-> {}]
    /\ clash = FALSE
    /\ narration = [j \in Jobs |-> <<>>]

\* before the first call: no 'data' directory; a file of an earlier run may
\* lie at a destination path
Init ==
    /\ \E old \in SUBSET {Dest("a")} :
          fs = [p \in Paths |-> IF p \in old THEN File(0, TRUE, <<>>) ELSE NoFile]
    /\ dataDir = FALSE
    /\ pc = [j \in Jobs |-> "idle"]
    /\ args = [j \in Jobs |-> NoArgs]
    /\ ret = [j \in Jobs |-> [path |-> None, error |-> NoError]]
    /\ log = [j \in Jobs |-> <<>>]
    /\ encoder = [j \in Jobs |-> NoRun]
    /\ warn = [j \in Jobs |-> {}]
    /\ clash = FALSE
    /\ narration = [j \in Jobs |-> <<>>]
    /\ PureIdle

Call(j) ==
    /\ \A k \in Jobs \ {j} : ~Running(k)
    /\ \E pdf_file \in PdfArgs, video_file \in VideoArgs, output_filename \in OutNames :
          Enter(j, pdf_file, video_file, output_filename)

Next ==
    \E j \in Jobs :
        \/ Call(j)
        \/ Extract(j)
        \/ Synthesize(j)
        \/ TranscribeConvert(j)
        \/ TranscribeRecognize(j)
        \/ Reconcile(j)
        \/ Mux(j)
        \/ Finalize(j)
        \/ Cleanup(j)

Spec == Init /\ [][Next]_vars

ConcPdfArgs == {<<"d", ".", "p", "d", "f">>}
ConcVideoArgs == {<<"v", ".", "m", "p", "4">>}

CallConc(j) ==
    \E pdf_file \in ConcPdfArgs, video_file \in ConcVideoArgs, output_filename \in OutNames :
        Enter(j, pdf_file, video_file, output_filename)

NextConc ==
    \E j \in Jobs :
        \/ CallConc(j)
        \/ Extract(j)
        \/ Synthesize(j)
        \/ TranscribeConvert(j)
        \/ TranscribeRecognize(j)
        \/ Reconcile(j)
        \/ Mux(j)
        \/ Finalize(j)
        \/ Cleanup(j)

SpecConc == Init /\ [][NextConc]_vars

(***************************************************************************)
(* The audio adjustment on its own, over every audio length, sample rate   *)
(* and video duration within the bounds.                                   *)
(***************************************************************************)
MaxSamples == 4
MaxRate == 3
MaxTarget == 24

InitAdjust ==
    /\ PipeIdle
    /\ audio \in {Samples(n) : n \in 0..MaxSamples}
    /\ rate \in 1..MaxRate
    /\ target \in 0..MaxTarget
    /\ adjusted = <<>>
    /\ segments = <<>> /\ srt = <<>>
    /\ extracted = <<>> /\ cleaned = <<>>

Adjust ==
    /\ adjusted = <<>>
    /\ adjusted' = <<AdjustAudio(audio, rate, target)>>
    /\ UNCHANGED <<pipeVars, audio, rate, target, segments, srt, extracted, cleaned>>

SpecAdjust == InitAdjust /\ [][Adjust]_vars

(***************************************************************************)
(* write_srt on its own, over recognition results.                         *)
(***************************************************************************)
MaxClean == 3
CleanAlphabet == {"1", "A", ".", "-", "'", "\\", " ", "\n"}

\* longer texts: a byline, a heading before a byline, nested headings, an
\* escaped quote with runs of whitespace, a heading, a byline that ends
\* inside a word
LongTexts ==
    {<<"A", "B", " ", "C", " ", "D", "E", " ", "-", " ", "F", " ", "-", " ", "1", "2">>,
     <<"1", ".", " ", "A", " ", "B", " ", "C", " ", "-", " ", "D", " ", "-", " ", "1">>,
     <<"x", " ", "1", ".", " ", "2", ".", " ", "A", " ", "B">>,
     <<"i", "t", "\\", "'", "s", " ", " ", "a", "\n", "\n", "t", "e", "s", "t">>,
     <<"1", ".", " ", "I", "N", "T", "R", "O", " ", "w", "e">>,
     <<"A", " ", "B", " ", "C", " ", "-", " ", "D", " ", "-", " ", "1", "a">>}

CleanInputs == UNION {[1..k -> CleanAlphabet] : k \in 0..MaxClean} \cup LongTexts

InitClean ==
    /\ PipeIdle
    /\ audio = <<>> /\ rate = 0 /\ target = 0 /\ adjusted = <<>>
    /\ segments = <<>> /\ srt = <<>>
    /\ extracted \in CleanInputs
    /\ cleaned = <<>>

\* clean_text applied to the extracted text, then to its own result
Clean ==
    /\ Len(cleaned) < 2
    /\ cleaned' = Append(cleaned, clean_text(IF cleaned = <<>> THEN extracted
                                                              ELSE cleaned[Len(cleaned)]))
    /\ UNCHANGED <<pipeVars, audio, rate, target, adjusted, segments, srt, extracted>>

SpecClean == InitClean /\ [][Clean]_vars

Stamps ==
    {h * 3600000 + m * 60000 + s * 1000 + f :
        h \in {0, 1, 100}, m \in {0, 2, 59}, s \in {0, 5, 59}, f \in {0, 250, 999}}

\* segment texts: every string of at most MaxText characters of CueAlphabet
MaxText == 4
CueAlphabet == {"-", ">", " ", "a"}
Texts == UNION {[1..k -> CueAlphabet] : k \in 0..MaxText}

\* segment lists: every order of at most MaxSegs of the start times below
MaxSegs == 3
SegStarts == [1..MaxSegs -> {0, 1500, 61000}]

SrtInputs ==
    {<<Segment(a, a + d, <<"h", "i">>)>> : a \in Stamps, d \in {0, 1500}}
        \cup {<<Segment(0, 1000, text)>> : text \in Texts}
        \cup {[i \in 1..k |-> Segment(starts[i], starts[i] + 500, <<"h", "i">>)] :
                 starts \in SegStarts, k \in 0..MaxSegs}

InitSrt ==
    /\ PipeIdle
    /\ audio = <<>> /\ rate = 1 /\ target = 0 /\ adjusted = <<>>
    /\ segments \in SrtInputs
    /\ srt = <<>>
    /\ extracted = <<>> /\ cleaned = <<>>

Write ==
    /\ srt = <<>>
    /\ srt' = <<WriteSrt(segments)>>
    /\ UNCHANGED <<pipeVars, audio, rate, target, adjusted, segments, extracted, cleaned>>

SpecSrt == InitSrt /\ [][Write]_vars

(***************************************************************************)
(* Properties.                                                             *)
(***************************************************************************)
Last(s) == s[Len(s)]

\* job j takes the step in which main returns
Returns(j) == pc[j] # "returned" /\ pc'[j] = "returned"

\* a stage of job j's run has failed
StageFailed(j) == \E i \in 1..Len(log[j]) : ~log[j][i].ok

\* the run of job j has a failed stage other than the validation
FailedAfterValidation(j) ==
    \E i \in 1..Len(log[j]) : ~log[j][i].ok /\ log[j][i].stage # "Validating"

\* C1: when a stage after validation has failed, then as main returns
\* 'data' holds no file and no file of the run is at the destination path.
C1_CleanupOnFailure ==
    [][\A j \in Jobs :
          (Returns(j) /\ FailedAfterValidation(j)')
              => /\ ListData' = {}
                 /\ fs'[Dest(args[j].out)].owner # j]_vars

\* C2: when ffmpeg exits non-zero, main returns an error that carries the
\* captured diagnostic output, and no file is at the destination path.
C2_MuxErrorReturned ==
    [][\A j \in Jobs :
          (Returns(j) /\ encoder'[j].status = "nonzero")
              => /\ ret'[j].path = None
                 /\ ret'[j].error.detail = encoder'[j].diag
                 /\ fs'[Dest(args[j].out)] = NoFile]_vars

\* C3: once a stage of a run has failed, no later stage of that run is
\* executed: a failed stage is the last one in the run's log.
C3_FailureAborts ==
    \A j \in Jobs : \A i \in 1..Len(log[j]) :
        ~log[j][i].ok => i = Len(log[j])

\* the extension test as the claim words it: the path ends in the extension,
\* letter case aside
SameLetter(c, d) ==
    c = d \/ \E i \in 1..Len(Upper) : {c, d} = {Upper[i], Lower[i]}
HasExtension(path, ext) ==
    /\ Len(path) >= Len(ext)
    /\ \A i \in 1..Len(ext) : SameLetter(path[Len(path) - Len(ext) + i], ext[i])

\* C4: a call whose document path does not end in '.pdf' or whose video
\* path does not end in '.mp4' (letter case aside) returns a ValueError,
\* having executed no stage but the validation, with the files and the
\* 'data' directory as they were.
C4_ValidationNoEffects ==
    [][\A j \in Jobs :
          (/\ pc[j] = "idle" /\ pc'[j] # "idle"
           /\ \/ ~HasExtension(args'[j].pdf, PdfSuffix)
              \/ ~HasExtension(args'[j].video, Mp4Suffix))
              => /\ pc'[j] = "returned"
                 /\ ret'[j].path = None
                 /\ ret'[j].error.exc = "ValueError"
                 /\ log'[j] = <<Entry("Validating", FALSE)>>
                 /\ fs' = fs
                 /\ dataDir' = dataDir
                 /\ encoder' = encoder]_vars

\* a call with a good document and a bad video path has returned the
\* validation error before any 'data' directory existed
C4_Witness ==
    \E j \in Jobs :
        /\ pc[j] = "returned"
        /\ args[j].pdf = <<"d", ".", "P", "D", "F">>
        /\ args[j].video = <<"v", ".", "a", "v", "i">>
        /\ ret[j].error.exc = "ValueError"
        /\ ~dataDir

\* C5: main returns either (path, empty error) or (None, an error), and a
\* path only when no stage of the run failed.
C5_PathOrError ==
    \A j \in Jobs :
        pc[j] = "returned"
            => \/ ret[j].path # None /\ ret[j].error = NoError /\ ~StageFailed(j)
               \/ ret[j].path = None /\ ret[j].error # NoError

\* C6: of two concurrent jobs, neither reads, overwrites or deletes a file
\* the other has written.
C6_NoSharedFiles == ~clash

\* C7: a run that returns a path has moved the output to the destination
\* and then emptied 'data' (every unlink having succeeded); and the output
\* is moved out of 'data' only when every stage of the run succeeded.
C7_MoveThenCleanup ==
    [][\A j \in Jobs :
          /\ (Returns(j) /\ ret'[j].path # None /\ warn'[j] = {})
                => /\ Last(log'[j]) = Entry("Finalizing", TRUE)
                   /\ fs'[Dest(args[j].out)] # NoFile
                   /\ ListData' = {}
          /\ (pc[j] = "finalizing" /\ pc'[j] = "cleaning")
                => \A i \in 1..Len(log[j]) : log[j][i].ok]_vars

\* C8: the stages of a run are executed in the order of Stages, each once,
\* a stage only after the one before it completed and left its artifact,
\* and a run ends either with a path or with an error.
C8_StageOrder ==
    \A j \in Jobs :
        /\ Len(log[j]) <= Len(Stages)
        /\ \A i \in 1..Len(log[j]) : log[j][i].stage = Stages[i]
        /\ \A i \in 2..Len(log[j]) : log[j][i - 1].ok
        /\ pc[j] = "finalizing" => fs[DataOut(args[j].out)] # NoFile
        /\ pc[j] = "returned" => (ret[j].path = None) # (ret[j].error = NoError)

\* round(n / d) for n >= 0, d > 0, ties to the even integer as Python rounds
RoundDiv(n, d) ==
    LET q == n \div d
        r == n % d
    IN  IF 2 * r < d THEN q
        ELSE IF 2 * r > d THEN q + 1
        ELSE IF q % 2 = 0 THEN q ELSE q + 1

\* C9: for non-empty audio and a positive target, the adjusted audio has
\* round(duration_target * sample_rate) samples.
C9_SampleCountRounded ==
    (adjusted # <<>> /\ Len(audio) > 0 /\ target > 0)
        => /\ adjusted[1].ok
           /\ Len(adjusted[1].samples) = RoundDiv(target * rate, DurDen)

\* the timestamp as the field formulas give it, s in milliseconds
FieldStamp(ms) ==
    ZeroPad(ms \div 3600000, 2) \o <<":">>
        \o ZeroPad((ms % 3600000) \div 60000, 2) \o <<":">>
        \o ZeroPad((ms % 60000) \div 1000, 2) \o <<",">>
        \o ZeroPad(ms % 1000, 3)

\* C10: format_timestamp gives hours, minutes, seconds and milliseconds by
\* the field formulas; 3725.25 s is 01:02:05,250 and 0.0 s is 00:00:00,000.
C10_TimestampFields ==
    /\ FieldStamp(3725250) =
          <<"0", "1", ":", "0", "2", ":", "0", "5", ",", "2", "5", "0">>
    /\ FieldStamp(0) =
          <<"0", "0", ":", "0", "0", ":", "0", "0", ",", "0", "0", "0">>
    /\ srt # <<>> =>
          \A i \in 1..Len(segments) :
              /\ srt[1][i].start = FieldStamp(segments[i].start)
              /\ srt[1][i].end = FieldStamp(segments[i].end)

\* sub occurs in s
Contains(s, sub) ==
    \E k \in 1..(Len(s) - Len(sub) + 1) : SubSeq(s, k, k + Len(sub) - 1) = sub

\* C11: no cue text written by write_srt contains the arrow '-->'.
C11_NoArrowInCue ==
    srt # <<>> => \A i \in 1..Len(srt[1]) : ~Contains(srt[1][i].text, Arrow)

\* the time a written HH:MM:SS,mmm stamp names, in milliseconds
RECURSIVE Number(_)
Number(digits) ==
    IF digits = <<>> THEN 0
    ELSE 10 * Number(SubSeq(digits, 1, Len(digits) - 1))
            + (CHOOSE d \in 0..9 : DigitChars[d + 1] = digits[Len(digits)])
StampValue(stamp) ==
    LET n == Len(stamp)
    IN  Number(SubSeq(stamp, 1, n - 10)) * 3600000
            + Number(SubSeq(stamp, n - 8, n - 7)) * 60000
            + Number(SubSeq(stamp, n - 5, n - 4)) * 1000
            + Number(SubSeq(stamp, n - 2, n))

\* n cue blocks, numbered 1..n in the order of the segments, the times of
\* block i being those of segment i to the second
CuesFollowSegments ==
    /\ Len(srt[1]) = Len(segments)
    /\ \A i \in 1..Len(segments) :
          /\ srt[1][i].index = i
          /\ StampValue(srt[1][i].start) \div 1000 = segments[i].start \div 1000
          /\ StampValue(srt[1][i].end) \div 1000 = segments[i].end \div 1000

CueStartsAscend ==
    \A i \in 1..(Len(srt[1]) - 1) :
        StampValue(srt[1][i].start) <= StampValue(srt[1][i + 1].start)

\* C12 as claimed: for every sequence of segments, write_srt emits one cue
\* block per segment, numbered 1..n in input order with the segment's
\* times, and the start times of consecutive blocks do not decrease.
C12_CuesOrdered_AnyInput ==
    srt # <<>> => CuesFollowSegments /\ CueStartsAscend

\* C12 as amended: one cue block per segment, numbered 1..n in input order
\* with the segment's times; the start times of consecutive blocks do not
\* decrease when those of the segments do not.
C12_CuesOrdered ==
    srt # <<>> =>
        /\ CuesFollowSegments
        /\ (\A i \in 1..(Len(segments) - 1) :
                segments[i].start <= segments[i + 1].start) => CueStartsAscend

\* three segments with ascending, distinct start times have been written
C12_Witness ==
    /\ srt # <<>>
    /\ Len(segments) = 3
    /\ segments[1].start < segments[2].start
    /\ segments[2].start < segments[3].start
    /\ Len(srt[1]) = 3


\* C13: clean_text is idempotent: cleaning a cleaned text changes nothing.
C13_CleanIdempotent ==
    Len(cleaned) = 2 => cleaned[2] = cleaned[1]


\* C14: decoded narration audio of zero samples makes reconciliation fail for
\* every target duration: the adjusted audio is not written and ffmpeg is
\* not run.
C14_ZeroSamplesRejected ==
    \A j \in Jobs :
        (narration[j] # <<>> /\ Len(narration[j][1]) = 0) =>
            /\ pc[j] # "muxing"
            /\ fs[TempAudio].owner # j


\* C15: a recognition segment that ends before it starts makes the
\* transcription stage fail: no cue is written for it and the job does not
\* go on to reconciliation.
C15_MalformedSegmentRejected ==
    \A j \in Jobs :
        (pc[j] = "reconciling" /\ fs[NarrationSrt].owner = j) =>
            \A i \in 1..Len(fs[NarrationSrt].data) :
                StampValue(fs[NarrationSrt].data[i].start)
                    <= StampValue(fs[NarrationSrt].data[i].end)


\* C16: cleanup is best-effort.  In the step that runs the cleanup loop of
\* job j, every entry of 'data' is either removed or left as it was with
\* its failure printed, no stage failure is recorded, and main returns the
\* destination path with an empty error, whichever removals failed.
C16_CleanupBestEffort ==
    [][\A j \in Jobs :
          (pc[j] = "cleaning" /\ pc'[j] = "returned") =>
              /\ ret'[j] = [path |-> Dest(args[j].out), error |-> NoError]
              /\ log'[j] = log[j]
              /\ warn'[j] \subseteq ListData
              /\ \A p \in ListData :
                    IF p \in warn'[j] THEN fs'[p] = fs[p] ELSE fs'[p] = NoFile]_vars

\* a job returned its destination path although the narration could not be
\* removed, the subtitle file having been removed after that failure
C16_Witness ==
    \E j \in Jobs :
        /\ pc[j] = "returned"
        /\ ret[j] = [path |-> Dest(args[j].out), error |-> NoError]
        /\ warn[j] = {NarrationMp3}
        /\ fs[NarrationMp3].owner = j
        /\ fs[NarrationSrt] = NoFile


\* C17: reconciliation keeps the sample content and inserts no silence.  For
\* n > 0 input samples every output sample is the input sample at the same
\* position modulo n; longer audio is cut to a prefix, equal audio is passed
\* through, shorter audio is tiled ceil(target / duration) times and cut.
\* Two seconds of audio against a five second video are tiled three times
\* and cut to five seconds of samples.
C17_TilingKeepsContent ==
    (adjusted # <<>> /\ Len(audio) > 0) =>
        LET out == adjusted[1].samples
            n   == Len(audio)
        IN  /\ adjusted[1].ok
            /\ \A i \in 1..Len(out) : out[i] = audio[((i - 1) % n) + 1]
            /\ n * DurDen > target * rate =>
                  /\ Len(out) <= n
                  /\ out = SubSeq(audio, 1, Len(out))
            /\ n * DurDen = target * rate => out = audio
            /\ n * DurDen < target * rate =>
                  /\ Len(out) = CutLength(rate, target)
                  /\ Len(out) <= n * CeilDiv(target * rate, DurDen * n)
                  /\ Len(out) > n * (CeilDiv(target * rate, DurDen * n) - 1) - 1
            /\ (n = 2 * rate /\ target = 5 * DurDen) =>
                  /\ CeilDiv(target * rate, DurDen * n) = 3
                  /\ out = SubSeq(audio \o audio \o audio, 1, 5 * rate)

\* two seconds of audio were adjusted to a five second video
C17_Witness ==
    /\ adjusted # <<>>
    /\ Len(audio) = 2 * rate
    /\ target = 5 * DurDen
    /\ Len(adjusted[1].samples) = 5 * rate
    /\ adjusted[1].samples[3 * rate] = audio[rate]


\* C18: whenever main returns an output path, the ffmpeg invocation of that
\* job exited with status zero and the file at the destination is the
\* complete file that invocation wrote.
C18_ReturnedPathIsEncoded ==
    [][\A j \in Jobs :
          (Returns(j) /\ ret'[j].path # None)
              => /\ encoder'[j].status = "zero"
                 /\ fs'[ret'[j].path] = File(j, TRUE, <<>>)]_vars


\* C19: the temporary files do not outlive their stage: when
\* overlay_audio_and_subtitles_on_video returns or raises, temp_audio.wav
\* does not exist, and when transcribe_audio returns or raises, the WAV
\* converted from the narration does not exist.
C19_TempFilesRemoved ==
    [][\A j \in Jobs :
          /\ (pc[j] = "muxing" /\ pc'[j] # "muxing")
                => fs'[TempAudio] = NoFile
          /\ (pc[j] \in {"converting", "recognizing"}
                /\ pc'[j] \notin {"converting", "recognizing"})
                => fs'[NarrationWav] = NoFile]_vars

====
